---- MODULE Spec2Model ----
(***************************************************************************)
(* Model of music_folder_organizer.py: the batch pipeline that reads the   *)
(* tags of every music file below folder_path, moves each file to          *)
(* base_folder/<first letter>/<main artist>/<album>/<file name>, appends a *)
(* row per file to a CSV manifest and optionally deletes empty folders.    *)
(*                                                                         *)
(* Python strings are sequences of one-character strings, a Path is the    *)
(* sequence of its parts (pathlib's PurePosixPath.parts), the filesystem   *)
(* is the set of directories `dirs` and the map `files` from the path of   *)
(* every regular file to the track (content) stored there.                 *)
(***************************************************************************)
EXTENDS Naturals, Sequences, FiniteSets, TLC

\* ------------------------------------------------------------------ bounds
MaxLen == 2       \* longest tag value drawn in SpecPath
MaxBatch == 2     \* largest --batch_size drawn
MaxRuns == 2      \* invocations of process_music_folder in one behaviour

\* ----------------------------------------------------------------- strings
None == [tag |-> "None"]
Raised == [tag |-> "Raised"]

Unknown == <<"U", "n", "k", "n", "o", "w", "n">>

LowerCase == <<"a", "b", "c", "d", "e", "f", "g", "h", "i", "j", "k", "l", "m",
               "n", "o", "p", "q", "r", "s", "t", "u", "v", "w", "x", "y", "z">>
UpperCase == <<"A", "B", "C", "D", "E", "F", "G", "H", "I", "J", "K", "L", "M",
               "N", "O", "P", "Q", "R", "S", "T", "U", "V", "W", "X", "Y", "Z">>

\* str.upper() on a one-character ASCII string
upper(c) ==
    IF \E i \in 1..Len(LowerCase) : LowerCase[i] = c
    THEN UpperCase[CHOOSE i \in 1..Len(LowerCase) : LowerCase[i] = c]
    ELSE c

\* the character class of the regular expression [<>:"/\\|?*]
ForbiddenChars == {"<", ">", ":", "\"", "/", "\\", "|", "?", "*"}

NotForbidden(c) == c \notin ForbiddenChars

\* a plausible slip: the colon is missing from the character class
sanitize_no_colon(name) ==
    SelectSeq(name, LAMBDA c : c \notin (ForbiddenChars \ {":"}))

\* re.sub(r'[<>:"/\\|?*]', '', name)
sanitize_folder_name(name) == SelectSeq(name, NotForbidden)

\* ------------------------------------------------------------------- paths
\* a part survives pathlib's parsing unless it is empty or "."
KeepPart(part) == part # <<>> /\ part # <<".">>

RECURSIVE SplitParts(_, _, _)
SplitParts(s, cur, acc) ==
    IF s = <<>>
    THEN IF KeepPart(cur) THEN Append(acc, cur) ELSE acc
    ELSE IF Head(s) = "/"
         THEN SplitParts(Tail(s), <<>>, IF KeepPart(cur) THEN Append(acc, cur) ELSE acc)
         ELSE SplitParts(Tail(s), Append(cur, Head(s)), acc)

\* the root of a segment: "/" for a leading slash, "//" for exactly two
RootOf(s) ==
    IF Len(s) >= 1 /\ s[1] = "/"
    THEN IF Len(s) >= 2 /\ s[2] = "/" /\ ~(Len(s) >= 3 /\ s[3] = "/")
         THEN <<"/", "/">>
         ELSE <<"/">>
    ELSE <<>>

\* pathlib's `path / segment`: a rooted segment replaces the path
Div(path, s) ==
    IF RootOf(s) # <<>>
    THEN <<RootOf(s)>> \o SplitParts(s, <<>>, <<>>)
    ELSE path \o SplitParts(s, <<>>, <<>>)

Name(path) == path[Len(path)]
Parent(path) == SubSeq(path, 1, Len(path) - 1)

\* PurePath.suffix: from the last dot of the name, unless that dot is the
\* first or the last character
Suffix(name) ==
    LET dots == {i \in 1..Len(name) : name[i] = "."}
    IN  IF dots = {} THEN <<>>
        ELSE LET i == CHOOSE j \in dots : \A k \in dots : k <= j
             IN  IF i > 1 /\ i < Len(name) THEN SubSeq(name, i, Len(name)) ELSE <<>>

MUSIC_EXTENSIONS ==
    { <<".", "m", "p", "3">>, <<".", "f", "l", "a", "c">>,
      <<".", "w", "a", "v">>, <<".", "m", "4", "a">> }

\* -------------------------------------------------------------- filesystem
VARIABLES
    dirs,          \* the directories that exist (the working directory <<>> always does)
    files,         \* path of every regular file |-> the track stored there
    tags,          \* track |-> its ID3 tags, or None when EasyID3 cannot read it
    faults,        \* candidate path |-> the filesystem fault hit when it is processed
    rmdir_fails,   \* directories whose rmdir raises
    folder_path,   \* --folder_path
    base_folder,   \* --base_folder
    delete_empty,  \* --delete_empty
    batch_size,    \* --batch_size
    manifest,      \* the rows of output_csv
    pc,            \* where the program is
    cands,         \* the entries of list(folder_path.rglob('*')) not yet looped over
    batch,         \* the batch handed to process_batch
    bpos,          \* process_batch's position in the batch
    work,          \* the state of the rglob generator of delete_empty_folders
    run,           \* bookkeeping of the current run of process_music_folder
    pass,          \* bookkeeping of the current pass of delete_empty_folders
    last,          \* what the latest step did (None when it handled no entry)
    placed,        \* destination |-> the track a successful move put there, and the run
    init_tree,     \* the tree and manifest a run started from
    ref            \* the outcome of the run before the tree was restored

vars == <<dirs, files, tags, faults, rmdir_fails, folder_path, base_folder,
          delete_empty, batch_size, manifest, pc, cands, batch, bpos, work,
          run, pass, last, placed, init_tree, ref>>

Exists(D, F, path) == path \in D \/ path \in DOMAIN F \/ path = <<>>
IsDir(D, path) == path \in D \/ path = <<>>

\* a path is absolute when its first part is a root; the working directory is
\* taken to lie outside every absolute path the model forms
IsAbsolute(path) == path # <<>> /\ path[1] \in {<<"/">>, <<"/", "/">>}

Children(D, F, d) ==
    {p \in D \cup DOMAIN F :
        Len(p) = Len(d) + 1 /\ Parent(p) = d /\ (d = <<>> => ~IsAbsolute(p))}

\* not any(dir.iterdir())
IsEmptyDir(D, F, d) == Children(D, F, d) = {}

\* os.scandir: the entries of a directory, in the order the system fixes
ScanDir(D, F, d) ==
    LET S == Children(D, F, d)
    IN  CHOOSE es \in [1..Cardinality(S) -> S] : \A e \in S : \E i \in DOMAIN es : es[i] = e

\* The generator behind Path.rglob('*'). Its state is a list of steps:
\*   "sel" d : list d and yield each entry,
\*   "rec" d : list d again and descend into each entry that is a directory,
\*   "y" p   : p is yielded to the loop body next.
\* RGlobStep is the state after the step at the head, RGlobAdvance runs the
\* generator up to its next yield over the tree as it is now.
RGlobStep(w, D, F) ==
    IF Head(w).k = "sel"
    THEN LET es == ScanDir(D, F, Head(w).p)
         IN  [i \in 1..Len(es) |-> [k |-> "y", p |-> es[i]]] \o Tail(w)
    ELSE LET es == SelectSeq(ScanDir(D, F, Head(w).p), LAMBDA e : e \in D)
         IN  [i \in 1..(2 * Len(es)) |->
                 IF i % 2 = 1 THEN [k |-> "sel", p |-> es[(i + 1) \div 2]]
                 ELSE [k |-> "rec", p |-> es[i \div 2]]] \o Tail(w)

\* (the next state is bound by CHOOSE so that it is computed once)
RECURSIVE RGlobAdvance(_, _, _)
RGlobAdvance(w, D, F) ==
    IF w = <<>> \/ Head(w).k = "y" THEN w
    ELSE CHOOSE r \in {RGlobAdvance(n, D, F) : n \in {RGlobStep(w, D, F)}} : TRUE

RGlobStart(root) == <<[k |-> "sel", p |-> root], [k |-> "rec", p |-> root]>>

\* list(path.rglob('*')) on a tree nobody changes meanwhile
RECURSIVE RGlobDrain(_, _, _)
RGlobDrain(w, D, F) ==
    CHOOSE r \in {IF a = <<>> THEN <<>> ELSE <<Head(a).p>> \o RGlobDrain(Tail(a), D, F) :
                    a \in {RGlobAdvance(w, D, F)}} : TRUE

RGlobList(D, F, root) == RGlobDrain(RGlobStart(root), D, F)

\* ---------------------------------------------------------------- metadata
TagGet(audio, key) == IF key \in DOMAIN audio THEN audio[key] ELSE Unknown

\* a plausible slip: the decorator logs the exception and raises it again
print_errors_reraise(result) == result

\* the decorator print_errors: an exception is logged and None is returned
print_errors(result) == IF result = Raised THEN None ELSE result

\* get_music_info: EasyID3(file_path) raises on a file it cannot read
get_music_info(F, T, file_path) ==
    print_errors(
        IF file_path \notin DOMAIN F \/ ~T[F[file_path]].ok
        THEN Raised
        ELSE LET audio == T[F[file_path]].audio
             IN  [tag |-> "dict",
                  name |-> TagGet(audio, "title"),
                  artists |-> TagGet(audio, "artist"),
                  main_artist |-> TagGet(audio, "albumartist"),
                  year |-> TagGet(audio, "date"),
                  album |-> TagGet(audio, "album")])

\* -------------------------------------------------------------------- move
Prefixes(path) == {SubSeq(path, 1, i) : i \in 1..Len(path)}

\* Path.mkdir(parents=True, exist_ok=True): raises when a part of the path is
\* a regular file or when the filesystem refuses; creates nothing then
mkdir(D, F, path, fault) ==
    IF fault = "mkdir" \/ \E q \in Prefixes(path) : q \in DOMAIN F
    THEN Raised
    ELSE [tag |-> "ok", dirs |-> D \cup (Prefixes(path) \ {<<>>})]

\* shutil.move(src, dst): os.rename, which replaces a file at dst and leaves
\* a file renamed onto itself alone; when the rename fails, copy and unlink.
\* A raised exception leaves src in place; after a copy whose unlink failed,
\* dst holds the copy as well. A dst that is a directory receives the file
\* under its own name, unless that name is taken.
rename_or_copy(D, F, src, dst, fault) ==
    LET real_dst == IF dst \in D THEN Append(dst, Name(src)) ELSE dst
        put == [p \in DOMAIN F \cup {real_dst} |-> IF p = real_dst THEN F[src] ELSE F[p]]
    IN  CASE src \notin DOMAIN F -> [tag |-> "Raised", files |-> F]
          [] src \in DOMAIN F /\ dst \in D /\ Exists(D, F, real_dst) ->
                [tag |-> "Raised", files |-> F]
          [] src \in DOMAIN F /\ ~(dst \in D /\ Exists(D, F, real_dst)) /\ fault = "move" ->
                [tag |-> "Raised", files |-> F]
          [] src \in DOMAIN F /\ ~(dst \in D /\ Exists(D, F, real_dst)) /\ fault = "copy" ->
                [tag |-> "Raised", files |-> put]
          [] OTHER ->
                [tag |-> "ok",
                 files |-> [p \in DOMAIN put \ ({src} \ {real_dst}) |-> put[p]]]

\* a plausible slip: the destination is removed before the rename
shutil_move_unlink_first(D, F, src, dst, fault) ==
    IF src = dst /\ src \in DOMAIN F
    THEN [tag |-> "Raised", files |-> [p \in DOMAIN F \ {dst} |-> F[p]]]
    ELSE rename_or_copy(D, F, src, dst, fault)

\* a plausible slip: the file is copied and the source never unlinked
shutil_move_copy_only(D, F, src, dst, fault) ==
    LET r == rename_or_copy(D, F, src, dst, fault)
    IN  IF r.tag = "ok"
        THEN [tag |-> "ok",
              files |-> [p \in DOMAIN r.files \cup {src} |->
                            IF p = src THEN F[src] ELSE r.files[p]]]
        ELSE r

\* a plausible slip: the source is unlinked although the copy failed
shutil_move_lossy(D, F, src, dst, fault) ==
    LET r == rename_or_copy(D, F, src, dst, fault)
    IN  IF r.tag = "Raised"
        THEN [tag |-> "Raised", files |-> [p \in DOMAIN F \ {src} |-> F[p]]]
        ELSE r

shutil_move(D, F, src, dst, fault) == rename_or_copy(D, F, src, dst, fault)

first_letter_of(main_artist) ==
    IF main_artist # Unknown THEN <<upper(main_artist[1])>> ELSE Unknown

\* new_folder of move_music_file
new_folder_of(info, base) ==
    LET main_artist == IF info.main_artist # <<>> THEN info.main_artist ELSE Unknown
        first_letter == first_letter_of(main_artist)
        album == sanitize_folder_name(IF info.album # <<>> THEN info.album ELSE Unknown)
    IN  Div(Div(Div(base, first_letter), main_artist), album)

\* move_music_file, decorated: the path moved to (None when anything raised)
\* and the tree it leaves
move_music_file(D, F, file_path, info, base, fault) ==
    LET new_folder == new_folder_of(info, base)
        made == mkdir(D, F, new_folder, fault)
    IN  IF made = Raised
        THEN [ret |-> print_errors(Raised), dirs |-> D, files |-> F]
        ELSE LET new_path == Div(new_folder, Name(file_path))
                 mv == shutil_move(made.dirs, F, file_path, new_path, fault)
             IN  [ret |-> print_errors(IF mv.tag = "ok"
                                       THEN [tag |-> "path", p |-> new_path]
                                       ELSE Raised),
                  dirs |-> made.dirs, files |-> mv.files]

\* ------------------------------------------------------------ initial trees
NameX == <<"x", ".", "m", "p", "3">>
NameY == <<"y", ".", "m", "p", "3">>
NameN == <<"n", ".", "t", "x", "t">>
DirD == <<"d">>
DirE == <<"e">>
DirO == <<"o">>

Unreadable == [ok |-> FALSE]
TagsA == [ok |-> TRUE,
          audio |-> [title |-> <<"t">>, albumartist |-> <<"a">>, album |-> <<"b", ":">>]]
TagsB == [ok |-> TRUE, audio |-> [title |-> <<"t">>, date |-> <<"1">>]]

FaultKinds == {"ok", "mkdir", "move", "copy", "row"}

\* the folders the source tree is drawn from, one file at most in each
SlotDirs == << <<>>, <<DirD>>, <<DirD, DirE>> >>
Slots == 1..Len(SlotDirs)

File(name, t, fault) == [kind |-> "file", name |-> name, tags |-> t, fault |-> fault]

\* what each slot may hold: nothing, an empty folder, or one file
SlotChoices ==
    << {[kind |-> "none"], File(NameX, Unreadable, "ok")}
         \cup {File(NameX, TagsA, f) : f \in FaultKinds},
       {[kind |-> "none"], [kind |-> "dir"], File(NameN, Unreadable, "ok"),
        File(NameX, TagsA, "ok"), File(NameX, TagsB, "ok"), File(NameX, TagsA, "row")},
       {[kind |-> "none"], [kind |-> "dir"], File(NameY, TagsA, "ok"),
        File(NameX, TagsA, "ok"), File(NameX, Unreadable, "ok")} >>

TreeOf(choice) ==
    LET present == {i \in Slots : choice[i].kind = "file"}
        made == {i \in Slots : choice[i].kind # "none"}
        at(i) == Append(SlotDirs[i], choice[i].name)
    IN  [dirs |-> UNION {Prefixes(SlotDirs[i]) : i \in made} \ {<<>>},
         files |-> [q \in {at(i) : i \in present} |->
                       CHOOSE i \in present : at(i) = q],
         tags |-> [i \in Slots |-> IF i \in present THEN choice[i].tags ELSE Unreadable],
         faults |-> [q \in {at(i) : i \in present} |->
                       choice[CHOOSE i \in present : at(i) = q].fault]]

NoRun == [n |-> 0, scanned |-> <<>>, seen |-> <<>>, moved |-> 0, rowerr |-> FALSE,
          cleaned |-> FALSE, fresh |-> TRUE]
NoPass == [n |-> 0, deleted |-> {}, err |-> FALSE, empty0 |-> {}]

InitCommon ==
    /\ manifest = <<>>
    /\ pc = "idle"
    /\ cands = <<>>
    /\ batch = <<>>
    /\ bpos = 1
    /\ work = <<>>
    /\ batch_size = 1
    /\ run = NoRun
    /\ pass = NoPass
    /\ last = None
    /\ ref = None
    /\ placed = [q \in {} |-> 0]
    /\ init_tree = [dirs |-> dirs, files |-> files, manifest |-> <<>>]

Init ==
    /\ \E choice \in {c \in [Slots -> UNION {SlotChoices[i] : i \in Slots}] :
                        \A i \in Slots : c[i] \in SlotChoices[i]} :
          LET t == TreeOf(choice)
          IN  /\ dirs = t.dirs
              /\ files = t.files
              /\ tags = t.tags
              /\ faults = t.faults
    /\ rmdir_fails = {}
    /\ folder_path = <<>>
    /\ base_folder = <<DirO>>
    /\ delete_empty \in BOOLEAN
    /\ InitCommon

\* --------------------------------------------------------- process_music_folder
HeaderRow == [tag |-> "header"]

FaultOf(path) == IF path \in DOMAIN faults THEN faults[path] ELSE "ok"

\* process_music_folder up to its loop: the manifest is opened for append,
\* the header row written and the tree listed once
StartRun(bs) ==
    /\ pc \in {"idle", "done"}
    /\ run.n < MaxRuns
    /\ batch_size' = bs
    /\ manifest' = Append(manifest, HeaderRow)
    /\ cands' = RGlobList(dirs, files, folder_path)
    /\ batch' = <<>>
    /\ bpos' = 1
    /\ pc' = "loop"
    /\ run' = [NoRun EXCEPT !.n = run.n + 1,
                            !.scanned = SelectSeq(RGlobList(dirs, files, folder_path),
                                            LAMBDA e : Suffix(Name(e)) \in MUSIC_EXTENSIONS),
                            !.fresh = /\ dirs = init_tree.dirs
                                      /\ files = init_tree.files
                                      /\ manifest = init_tree.manifest]
    /\ pass' = NoPass
    /\ last' = None
    /\ UNCHANGED <<dirs, files, tags, faults, rmdir_fails, folder_path, base_folder,
                   delete_empty, work, placed, init_tree, ref>>

\* the loop over the listing, up to the next call of process_batch: entries with
\* a music suffix are collected until batch_size of them are in the batch
RECURSIVE FillBatch(_, _, _)
FillBatch(entries, b, bs) ==
    IF entries = <<>> \/ Len(b) >= bs
    THEN [rest |-> entries, batch |-> b]
    ELSE IF Suffix(Name(Head(entries))) \in MUSIC_EXTENSIONS
         THEN FillBatch(Tail(entries), Append(b, Head(entries)), bs)
         ELSE FillBatch(Tail(entries), b, bs)

NextBatch ==
    /\ pc = "loop"
    /\ cands # <<>>
    /\ LET f == FillBatch(cands, <<>>, batch_size)
       IN  /\ cands' = f.rest
           /\ batch' = f.batch
           /\ bpos' = 1
           /\ pc' = IF f.batch # <<>> THEN "batch" ELSE "loop"
    /\ last' = None
    /\ UNCHANGED <<dirs, files, tags, faults, rmdir_fails, folder_path, base_folder,
                   delete_empty, batch_size, manifest, work, run, pass, placed,
                   init_tree, ref>>

\* one iteration of process_batch's loop
ProcessFile ==
    /\ pc = "batch"
    /\ bpos <= Len(batch)
    /\ LET file_path == batch[bpos]
           fault == FaultOf(file_path)
           info == get_music_info(files, tags, file_path)
           mv == IF info \in {None, Raised}
                 THEN [ret |-> None, dirs |-> dirs, files |-> files]
                 ELSE move_music_file(dirs, files, file_path, info, base_folder, fault)
           \* an exception inside process_batch, which its decorator meets
           thrown == info = Raised \/ mv.ret = Raised
                     \/ (info # None /\ fault = "row")
           wrote == info # None /\ ~thrown
           moved == mv.ret \notin {None, Raised}
           caught == print_errors(Raised) = None
       IN  /\ dirs' = mv.dirs
           /\ files' = mv.files
           /\ manifest' =
                IF wrote
                THEN Append(manifest,
                            [tag |-> "row", name |-> info.name, artists |-> info.artists,
                             main_artist |-> info.main_artist, year |-> info.year,
                             album |-> info.album, new_path |-> mv.ret])
                ELSE manifest
           /\ run' = [run EXCEPT !.seen = Append(@, file_path),
                                 !.moved = IF moved THEN @ + 1 ELSE @,
                                 !.rowerr = @ \/ (info \notin {None, Raised}
                                                  /\ mv.ret # Raised /\ fault = "row")]
           /\ placed' =
                IF moved
                THEN [q \in (DOMAIN placed \ {file_path}) \cup {mv.ret.p} |->
                         IF q = mv.ret.p THEN [track |-> files[file_path], run |-> run.n]
                         ELSE placed[q]]
                ELSE placed
           /\ last' = [tag |-> "file", path |-> file_path,
                       track |-> IF file_path \in DOMAIN files THEN files[file_path] ELSE 0,
                       info |-> info, new_path |-> mv.ret, fault |-> fault,
                       row |-> wrote,
                       over |-> moved /\ mv.ret.p \in DOMAIN files,
                       again |-> /\ file_path \in DOMAIN placed
                                 /\ file_path \in DOMAIN files
                                 /\ placed[file_path].track = files[file_path]
                                 /\ placed[file_path].run < run.n]
           /\ IF ~thrown
              THEN /\ bpos' = bpos + 1
                   /\ pc' = IF bpos + 1 > Len(batch) THEN "loop" ELSE "batch"
                   /\ UNCHANGED cands
              ELSE IF caught
                   THEN \* process_batch returns None; the loop goes on
                        /\ bpos' = 1
                        /\ pc' = "loop"
                        /\ UNCHANGED cands
                   ELSE \* nothing catches it: process_music_folder ends here
                        /\ bpos' = 1
                        /\ pc' = "done"
                        /\ cands' = <<>>
    /\ batch' = IF pc' = "batch" THEN batch ELSE <<>>
    /\ UNCHANGED <<tags, faults, rmdir_fails, folder_path, base_folder, delete_empty,
                   batch_size, work, pass, init_tree, ref>>

\* delete_empty_folders is entered: the generator of rglob('*') is created
EnterCleanup ==
    /\ work' = RGlobStart(folder_path)
    /\ pass' = [n |-> pass.n, deleted |-> {}, err |-> FALSE,
                empty0 |-> {d \in dirs : Len(d) > Len(folder_path)
                                         /\ SubSeq(d, 1, Len(folder_path)) = folder_path
                                         /\ IsEmptyDir(dirs, files, d)}]

\* the loop is over: the manifest is closed, and the empty folders are deleted
\* when asked for
EndLoop ==
    /\ pc = "loop"
    /\ cands = <<>>
    /\ IF delete_empty
       THEN /\ pc' = "clean"
            /\ EnterCleanup
            /\ run' = [run EXCEPT !.cleaned = TRUE]
       ELSE /\ pc' = "done"
            /\ UNCHANGED <<work, pass, run>>
    /\ last' = None
    /\ UNCHANGED <<dirs, files, tags, faults, rmdir_fails, folder_path, base_folder,
                   delete_empty, batch_size, manifest, cands, batch, bpos, placed,
                   init_tree, ref>>

\* --------------------------------------------------------- delete_empty_folders
\* a plausible slip: a folder counts as empty when it holds no regular file
should_delete_no_files(D, F, d) ==
    IsDir(D, d) /\ ~\E p \in DOMAIN F : Len(p) = Len(d) + 1 /\ Parent(p) = d

\* a plausible slip: is_file() is tested where is_dir() is meant
should_delete_is_file(D, F, d) == d \in DOMAIN F /\ IsEmptyDir(D, F, d)

\* dir.is_dir() and not any(dir.iterdir())
should_delete(D, F, d) == IsDir(D, d) /\ IsEmptyDir(D, F, d)

\* one iteration of the loop over folder_path.rglob('*'): the generator yields
\* its next entry, which is removed when it is an empty directory. An rmdir that
\* raises ends the function: its decorator logs the error.
VisitEntry ==
    /\ pc = "clean"
    /\ LET w == RGlobAdvance(work, dirs, files)
       IN  /\ w # <<>>
           /\ LET d == Head(w).p
                  hit == should_delete(dirs, files, d)
                  raised == hit /\ d \in rmdir_fails
              IN  /\ dirs' = IF hit /\ ~raised THEN dirs \ {d} ELSE dirs
                  /\ pass' = [pass EXCEPT
                                !.deleted = IF hit /\ ~raised THEN @ \cup {d} ELSE @,
                                !.err = raised,
                                !.n = IF raised /\ @ < 2 THEN @ + 1 ELSE @]
                  /\ work' = IF raised THEN <<>> ELSE Tail(w)
                  /\ pc' = IF raised THEN "done" ELSE "clean"
                  /\ last' = [tag |-> "dir", path |-> d, hit |-> hit, raised |-> raised,
                              was_empty |-> IsEmptyDir(dirs, files, d)]
    /\ UNCHANGED <<files, tags, faults, rmdir_fails, folder_path, base_folder,
                   delete_empty, batch_size, manifest, cands, batch, bpos, run,
                   placed, init_tree, ref>>

\* the generator is exhausted: delete_empty_folders returns
EndCleanup ==
    /\ pc = "clean"
    /\ RGlobAdvance(work, dirs, files) = <<>>
    /\ pc' = "done"
    /\ work' = <<>>
    /\ pass' = [pass EXCEPT !.n = IF @ < 2 THEN @ + 1 ELSE @]
    /\ last' = None
    /\ UNCHANGED <<dirs, files, tags, faults, rmdir_fails, folder_path, base_folder,
                   delete_empty, batch_size, manifest, cands, batch, bpos, run,
                   placed, init_tree, ref>>

\* delete_empty_folders(folder_path) called on its own
StartCleanup ==
    /\ pc \in {"idle", "done"}
    /\ pc' = "clean"
    /\ EnterCleanup
    /\ last' = None
    /\ UNCHANGED <<dirs, files, tags, faults, rmdir_fails, folder_path, base_folder,
                   delete_empty, batch_size, manifest, cands, batch, bpos, run,
                   placed, init_tree, ref>>

\* ------------------------------------------------------------------ harness
\* The tree and the manifest are put back as they were before the first run, so
\* that a second run, with another batch size, starts from the same tree; the
\* outcome of the run that ended is kept in ref.
Restore ==
    /\ pc = "done"
    /\ ref = None
    /\ run.n >= 1
    /\ run.n < MaxRuns
    /\ ref' = [tag |-> "ref", batch_size |-> batch_size, dirs |-> dirs, files |-> files,
               manifest |-> manifest, scanned |-> run.scanned]
    /\ dirs' = init_tree.dirs
    /\ files' = init_tree.files
    /\ manifest' = init_tree.manifest
    /\ pc' = "idle"
    /\ pass' = NoPass
    /\ last' = None
    /\ placed' = [q \in {} |-> 0]
    /\ UNCHANGED <<tags, faults, rmdir_fails, folder_path, base_folder, delete_empty,
                   batch_size, cands, batch, bpos, work, run, init_tree>>

Next ==
    \/ \E bs \in 1..MaxBatch : StartRun(bs)
    \/ NextBatch
    \/ ProcessFile
    \/ EndLoop
    \/ VisitEntry
    \/ EndCleanup
    \/ Restore

Spec == Init /\ [][Next]_vars

\* ---------------------------------- delete_empty_folders called again and again
DirG == <<"g">>
DirH == <<"h">>

\* the folders a tree of SpecClean is made of
CleanDirs == {<<DirD>>, <<DirD, DirE>>, <<DirD, DirE, DirH>>, <<DirG>>, <<DirG, DirE>>}

InitClean ==
    /\ \E ds \in SUBSET CleanDirs :
          /\ \A d \in ds : Parent(d) \in ds \cup {<<>>}
          /\ dirs = ds
    /\ \E fs \in SUBSET (dirs \cup {<<>>}) :
          /\ Cardinality(fs) <= 1
          /\ files = [q \in {Append(d, NameN) : d \in fs} |-> 1]
    /\ \E rf \in SUBSET dirs :
          /\ Cardinality(rf) <= 1
          /\ rmdir_fails = rf
    /\ tags = [i \in Slots |-> Unreadable]
    /\ faults = [q \in DOMAIN files |-> "ok"]
    /\ folder_path = <<>>
    /\ base_folder = <<DirO>>
    /\ delete_empty = TRUE
    /\ InitCommon

NextClean ==
    \/ StartCleanup
    \/ VisitEntry
    \/ EndCleanup

\* the caller keeps calling delete_empty_folders, and every call runs to its end
SpecClean == InitClean /\ [][NextClean]_vars /\ WF_vars(NextClean)

\* ------------------------------------------------ one file, every tag value
TagChars == {"a", "B", ":", "/"}

RECURSIVE StringsUpTo(_)
StringsUpTo(n) ==
    IF n = 0 THEN {<<>>}
    ELSE LET shorter == StringsUpTo(n - 1)
         IN  shorter \cup {Append(s, c) : s \in shorter, c \in TagChars}

TagValues == StringsUpTo(MaxLen) \cup {Unknown}

InitPath ==
    /\ dirs = {<<DirD>>}
    /\ files = [q \in {<<DirD, NameX>>} |-> 1]
    /\ \E keys \in SUBSET {"albumartist", "album"} :
          \E audio \in [keys -> TagValues] :
             tags = [i \in Slots |-> IF i = 1 THEN [ok |-> TRUE, audio |-> audio]
                                    ELSE Unreadable]
    /\ faults = [q \in DOMAIN files |-> "ok"]
    /\ rmdir_fails = {}
    /\ folder_path = <<>>
    /\ base_folder = <<DirO>>
    /\ delete_empty = FALSE
    /\ InitCommon

NextPath ==
    \/ StartRun(1)
    \/ NextBatch
    \/ ProcessFile
    \/ EndLoop

SpecPath == InitPath /\ [][NextPath]_vars

\* ======================================================================
\* Properties
\* ======================================================================
\* the data rows this run appended: those after the last header row
RECURSIVE DataRowsOf(_)
DataRowsOf(rows) ==
    IF rows = <<>> \/ rows[Len(rows)].tag = "header" THEN 0
    ELSE 1 + DataRowsOf(SubSeq(rows, 1, Len(rows) - 1))

RunOver == pc = "done" /\ run.n >= 1

Skipped == last.tag = "file" /\ last.new_path = None
Moved == last.tag = "file" /\ last.new_path \notin {None, Raised}

\* C1: when a run of process_music_folder is over, the manifest holds as many
\* data rows of this run as candidate files were moved.
\* A candidate that was skipped, for its tags, the destination folder or the
\* move, has no row.
C1_RowsEqualMoved ==
    /\ Skipped => ~last.row
    /\ RunOver => DataRowsOf(manifest) = run.moved

\* C2, as stated: after a move that returned a path, a file is at the
\* destination and none is at the original path.
C2_MovedLeavesSource ==
    Moved => /\ last.new_path.p \in DOMAIN files
             /\ last.path \notin DOMAIN files

\* C2, amended: after a move that returned a path which is not a directory,
\* the destination holds the file that was at the original path, and the
\* original path holds no file unless it is the destination itself.
C2_MovedToDestination ==
    (Moved /\ last.new_path.p \notin dirs) =>
        /\ last.new_path.p \in DOMAIN files
        /\ files[last.new_path.p] = last.track
        /\ (last.new_path.p # last.path => last.path \notin DOMAIN files)

\* a move replaced the file another candidate had left at the destination
C2_Witness == Moved /\ last.over /\ last.new_path.p # last.path

\* C3: from the same tree, the run with batch size 1 and the run with a batch
\* size of at least the number of candidates end with the same tree and the
\* same manifest.
C3_BatchSizeIrrelevant ==
    (RunOver /\ ref # None /\ run.fresh /\ ref.batch_size = 1
        /\ batch_size >= Len(run.scanned))
    => /\ files = ref.files
       /\ dirs = ref.dirs
       /\ manifest = ref.manifest

PassOver == pc = "done" /\ pass.n >= 1

\* C4, as stated: the second of two passes of delete_empty_folders in a row
\* deletes nothing and logs no error.
C4_SecondPassNoop == (PassOver /\ pass.n >= 2) => (pass.deleted = {} /\ ~pass.err)

\* C4, amended: the second of two passes in a row deletes nothing and logs no
\* error when the first pass left no empty directory below the root.
C4_SecondPassNoopIfNoneEmpty ==
    (PassOver /\ pass.n >= 2 /\ pass.empty0 = {}) => (pass.deleted = {} /\ ~pass.err)

\* a second pass over a tree the earlier pass had deleted from, no directory
\* of which is empty
C4_Witness ==
    PassOver /\ pass.n >= 2 /\ pass.empty0 = {} /\ dirs # init_tree.dirs /\ dirs # {}

\* C5: when a pass is over, every directory that was empty, but the ones whose
\* rmdir fails, is deleted.
C5_OthersStillDeleted ==
    PassOver => \A d \in pass.empty0 \ rmdir_fails : d \notin dirs

\* C6: when no row could not be written, a run that is over has processed
\* every candidate of its listing, whatever failed on the way for the tags, the
\* destination folder or the move, and has run the cleanup when asked to.
C6_RunNeverAborted ==
    (RunOver /\ ~run.rowerr) =>
        /\ run.seen = run.scanned
        /\ delete_empty => (run.cleaned /\ pass.n >= 1)

\* the tags, the mkdir or the move of the first of several candidates failed,
\* and the run went on to the cleanup
C6_Witness ==
    /\ RunOver /\ ~run.rowerr /\ delete_empty /\ run.cleaned
    /\ batch_size = 2
    /\ Len(run.seen) = 3
    /\ FaultOf(run.seen[1]) \in {"mkdir", "move", "copy"}

\* C7: a candidate that was skipped, for its tags, the destination folder or
\* the move, is still at its original path, with its content.
C7_SkippedStays ==
    Skipped => /\ last.path \in DOMAIN files
               /\ files[last.path] = last.track

\* a candidate whose move failed half way
C7_Witness == Skipped /\ last.info # None /\ last.fault = "copy"

\* the album as the claim words it: Unknown when empty, then without the
\* forbidden characters
C8_Album(album) ==
    LET a == IF album = <<>> THEN Unknown ELSE album
        keep == {i \in 1..Len(a) : a[i] \notin {"<", ">", ":", "\"", "/", "\\", "|", "?", "*"}}
        \* the i-th kept position
        nth(i) == CHOOSE j \in keep : Cardinality({k \in keep : k <= j}) = i
    IN  [i \in 1..Cardinality(keep) |-> a[nth(i)]]

\* C8: a moved file is at base_folder / F / main_artist / album / file name,
\* F the uppercased first character of main_artist or Unknown, the album
\* without forbidden characters, main_artist as it is.
C8_Destination ==
    Moved =>
        LET main_artist == IF last.info.main_artist = <<>> THEN Unknown
                           ELSE last.info.main_artist
            F == IF main_artist = Unknown THEN Unknown ELSE <<upper(main_artist[1])>>
            album == C8_Album(last.info.album)
            dest == Div(Div(Div(Div(base_folder, F), main_artist), album), Name(last.path))
        IN  /\ last.new_path.p = dest
            /\ dest \in DOMAIN files
            /\ files[dest] = last.track
            /\ Name(dest) = Name(last.path)

\* a file whose main artist starts with a lowercase letter and whose album
\* holds a forbidden character was moved
C8_Witness ==
    /\ Moved
    /\ last.info.main_artist = <<"a", "B">>
    /\ last.info.album = <<":", "a">>

C10_PassesEmptyTheTree ==
    /\ [](pass.deleted \subseteq pass.empty0)
    /\ []((DOMAIN files = {} /\ rmdir_fails = {}) => <>[](dirs = {}))

\* a pass is over that deleted a directory and left its parent, now empty
C10_Witness ==
    /\ PassOver /\ DOMAIN files = {} /\ rmdir_fails = {}
    /\ pass.deleted # {}
    /\ \E d \in dirs : IsEmptyDir(dirs, files, d) /\ d \notin pass.empty0

====
